---- MODULE Spec2Model ----
(***************************************************************************)
(* A model of mysql_async_support_rt: the batch orchestrator               *)
(* (QueryRunner::query_multi / exec_multi), the tunnel session manager     *)
(* (SshTunnelManager::prepare_tunnels), the scoped executor                *)
(* (SqlOverSsh::execute) and the result assembler                          *)
(* (QueryRunner::query_result_fetch).                                      *)
(*                                                                         *)
(* A query target is identified by its index in the input slice; target i  *)
(* has the name cfg.names[i] and the database address i.  A forwarding     *)
(* endpoint is identified by the database address it forwards to.          *)
(*                                                                         *)
(* Every await of the code on a collaborator (session open, channel open,  *)
(* get_conn, prep, exec_iter, collect, disconnect, the caller's operation) *)
(* is one action whose outcome (Ok / Err) is chosen nondeterministically.  *)
(* The synchronous work the combinators of `futures` do inside one poll    *)
(* (Buffered pulling futures while it has room, FuturesOrdered yielding    *)
(* the completed head, Fold pushing it) is part of the action that made it *)
(* possible.                                                               *)
(***************************************************************************)
EXTENDS Integers, Sequences, FiniteSets, TLC

\* Bounds of the model.
MaxTargets == 3
MaxLimit == 2
MaxExecutes == 2
MaxOutput == 2
MaxSets == 3
MaxSecs == 2

\* PoolConstraints::new(1, 10)
PoolMin == 1
PoolMax == 10

\* QueryRunner::SSH_CONCURRENT_LIMIT_DEFAULT
SSH_CONCURRENT_LIMIT_DEFAULT == 20

\* QueryRunner::TUNNELS_PER_SSH_CONNECTION_DEFAULT
TUNNELS_PER_SSH_CONNECTION_DEFAULT == 3

\* As QueryRunner_default, with the two arguments of new exchanged.
QueryRunner_default_exchanged ==
    [ssh_concurrent_limit |-> TUNNELS_PER_SSH_CONNECTION_DEFAULT,
     tunnels_per_ssh_connection |-> SSH_CONCURRENT_LIMIT_DEFAULT]

\* QueryRunner::default(): Self::new(SSH_CONCURRENT_LIMIT_DEFAULT,
\* TUNNELS_PER_SSH_CONNECTION_DEFAULT)
QueryRunner_default ==
    [ssh_concurrent_limit |-> SSH_CONCURRENT_LIMIT_DEFAULT,
     tunnels_per_ssh_connection |-> TUNNELS_PER_SSH_CONNECTION_DEFAULT]

VARIABLES
    cfg,        \* the QueryRunner's limits, the entry point called, the targets' names
    pc,         \* the batch call: "start", "polling", "done", "panicked"
    chunk,      \* per chunk of targets: prepare_tunnels' progress, the session, the tasks
    yielded,    \* number of chunk outputs the outer fold has consumed
    results,    \* the outer fold's first accumulator
    errors,     \* the outer fold's second accumulator
    exe,        \* the invocations of SqlOverSsh::execute
    fetch,      \* an invocation of QueryRunner::query_result_fetch
    time        \* a Value::Time written by value_time_serde and read back

vars == <<cfg, pc, chunk, yielded, results, errors, exe, fetch, time>>

batch_vars == <<cfg, pc, chunk, yielded, results, errors>>

Min(a, b) == IF a <= b THEN a ELSE b

Range(s) == {s[i] : i \in DOMAIN s}

\* ------------------------------------------------------------------------
\* Inputs

NameIds == 1 .. MaxTargets

\* Names matter only up to equality: a list of names is given in the form
\* where the first name is 1 and each new name is the least unused one.
RECURSIVE NameSeqs(_)
NameSeqs(n) ==
    IF n = 0 THEN {<<>>}
    ELSE LET shorter == NameSeqs(n - 1)
             Top(s) == IF s = <<>> THEN 0 ELSE CHOOSE m \in Range(s) : \A x \in Range(s) : x <= m
         IN  {Append(s, x) : s \in shorter, x \in NameIds} \cap
             UNION {{Append(s, x) : x \in 1 .. (Top(s) + 1)} : s \in shorter}

Modes == {"query_multi", "exec_multi"}

Distinct(s) == Cardinality(Range(s)) = Len(s)

\* QueryTarget::name is there to tell the targets of a batch apart: the
\* calls with pairwise distinct names.
Configs ==
    [mode : Modes,
     ssh_concurrent_limit : 0 .. MaxLimit,
     tunnels_per_ssh_connection : 0 .. MaxLimit,
     names : {s \in UNION {NameSeqs(n) : n \in 0 .. MaxTargets} : Distinct(s)}]

\* Nothing stops a caller of query_multi from giving two targets the same
\* name: the calls in which some targets share a name.
DuplicateNameConfigs ==
    [mode : {"query_multi"},
     ssh_concurrent_limit : 1 .. MaxLimit,
     tunnels_per_ssh_connection : 1 .. MaxLimit,
     names : {s \in UNION {NameSeqs(n) : n \in 0 .. MaxTargets} : ~Distinct(s)}]

NumTargets == Len(cfg.names)

Name(target) == cfg.names[target]

DistinctNames == Distinct(cfg.names)

\* ------------------------------------------------------------------------
\* Errors (mysql_async_support_model::Error), by kind.  The two errors of
\* ssh_jumper that prepare_tunnels can pass through are kept apart.

SshJumperSession == "SshJumper(open_ssh_session)"
SshJumperChannel == "SshJumper(open_direct_channel)"

\* As chunks, without the shorter last piece (chunks_exact).
RECURSIVE chunks_exact(_, _)
chunks_exact(s, size) ==
    IF Len(s) < size \/ s = <<>> THEN <<>>
    ELSE <<SubSeq(s, 1, size)>> \o chunks_exact(SubSeq(s, size + 1, Len(s)), size)

\* As chunks, with pieces of size + 1 elements.
RECURSIVE chunks_oversize(_, _)
chunks_oversize(s, size) ==
    IF s = <<>> THEN <<>>
    ELSE LET k == Min(size + 1, Len(s))
         IN  <<SubSeq(s, 1, k)>> \o chunks_oversize(SubSeq(s, k + 1, Len(s)), size)

\* <[T]>::chunks(size): consecutive pieces of `size` elements, the last one
\* shorter when the length is no multiple of size.  size > 0.
RECURSIVE chunks(_, _)
chunks(s, size) ==
    IF s = <<>> THEN <<>>
    ELSE LET k == Min(size, Len(s))
         IN  <<SubSeq(s, 1, k)>> \o chunks(SubSeq(s, k + 1, Len(s)), size)

query_targets == [i \in 1 .. NumTargets |-> i]

Chunks == chunks(query_targets, cfg.tunnels_per_ssh_connection)

\* As NumChunks, with one empty chunk made of an empty slice.
NumChunks_at_least_one ==
    IF cfg.tunnels_per_ssh_connection = 0 THEN 0
    ELSE IF Len(Chunks) = 0 THEN 1 ELSE Len(Chunks)

NumChunks == IF cfg.tunnels_per_ssh_connection = 0 THEN 0 ELSE Len(Chunks)

\* As TaskTargets, with the whole slice in query_multi too.
TaskTargets_whole_slice(c) == query_targets

\* The slice the per-target stage of chunk c iterates over: query_multi
\* passes query_targets_chunk, exec_multi passes query_targets.
TaskTargets(c) ==
    IF cfg.mode = "query_multi" THEN Chunks[c] ELSE query_targets

\* QueryResult / QueryError / (target, output) entries.  `target` records
\* which per-target execution produced the entry.
Entry(target, v) == [name |-> Name(target), target |-> target, v |-> v]

\* As chunk_errors, with the error given to the first target only and no
\* QueryError made for the others.
chunk_errors_first_only(targets, e) == <<Entry(targets[1], e)>>

\* The Err arm of the chunk future: error.take().unwrap_or(Error::SshConnInit).
chunk_errors(targets, e) ==
    [j \in 1 .. Len(targets) |-> Entry(targets[j], IF j = 1 THEN e ELSE "SshConnInit")]

\* ------------------------------------------------------------------------
\* The per-target future of query_over_tunnels / exec_over_tunnels.

EmptyMap == [nm \in NameIds |-> 0]

\* pc: where the future waits; db_tunnel: the endpoint it was given; op: what
\* the operation returned; ret: what sql_over_ssh.exec returned, mapped to a
\* QueryError when an error; failed: the first collaborator call of this
\* future that returned an error; pool: the pool built for it (0: none);
\* op_pool: the pool its operation was called with; calls: invocations of
\* its operation; disconnects: disconnects attempted on its pool; steps:
\* the awaits of query_run made, in order.
IdleTask ==
    [pc |-> "idle", db_tunnel |-> 0, op |-> "none", ret |-> "none", failed |-> "none",
     pool |-> 0, op_pool |-> 0, calls |-> 0, disconnects |-> 0, steps |-> <<>>]

\* As pool_new, with one pool kept for all the targets.
pool_shared(target) == 1

\* mysql_async::Pool::new(opts) in db_pool_initialize: a pool of its own
\* for every call, named here after the target it is built for.
pool_new(target) == target

\* First poll of a per-target future: the endpoint lookup, and with an
\* endpoint the call of sql_over_ssh.exec, which builds the pool and calls
\* the operation: query_run awaits get_conn, a caller's operation is one await.
task_start(map, target) ==
    IF map[Name(target)] = 0
    THEN [IdleTask EXCEPT !.pc = "done", !.ret = "SshTunnelNotFound"]
    ELSE [IdleTask EXCEPT !.pc = IF cfg.mode = "query_multi" THEN "get_conn" ELSE "call",
                          !.db_tunnel = map[Name(target)],
                          !.pool = pool_new(target),
                          !.op_pool = pool_new(target),
                          !.calls = 1,
                          !.steps = IF cfg.mode = "query_multi" THEN <<"get_conn">>
                                    ELSE <<>>]

RECURSIVE DonePrefix(_)
DonePrefix(ts) ==
    IF ts = <<>> \/ Head(ts).pc # "done" THEN 0 ELSE 1 + DonePrefix(Tail(ts))

Started(ts) == Cardinality({j \in DOMAIN ts : ts[j].pc # "idle"})

\* As buffered_has_room, off by one upwards.
buffered_has_room_inclusive(len, max) == len <= max

\* As buffered_has_room, off by one downwards.
buffered_has_room_short(len, max) == len + 1 < max

\* Buffered::poll_next pulls from its stream while in_progress_queue.len() < max.
buffered_has_room(len, max) == len < max

\* Buffered over the per-target futures: the futures are started in order;
\* a future leaves the queue when it is done and every one before it is.
RECURSIVE buffered_fill(_, _, _, _)
buffered_fill(ts, targets, map, max) ==
    LET s == Started(ts)
    IN  IF s < Len(ts) /\ buffered_has_room(s - DonePrefix(ts), max)
        THEN buffered_fill([ts EXCEPT ![s + 1] = task_start(map, targets[s + 1])],
                           targets, map, max)
        ELSE ts

\* As TaskEntries, with the outcomes keyed by target name: a target whose
\* name an earlier target of the chunk has yields no outcome of its own.
TaskEntries_by_name(ts, targets) ==
    LET all == [j \in 1 .. Len(ts) |-> Entry(targets[j], ts[j].ret)]
        kept[j \in 0 .. Len(ts)] ==
            IF j = 0 THEN <<>>
            ELSE IF \E i \in 1 .. j - 1 : Name(targets[i]) = Name(targets[j])
                 THEN kept[j - 1]
                 ELSE Append(kept[j - 1], all[j])
    IN  kept[Len(ts)]

\* What the per-target futures yield: each maps its outcome into
\* (name, value) or a QueryError with the name, one per target.
TaskEntries(ts, targets) == [j \in 1 .. Len(ts) |-> Entry(targets[j], ts[j].ret)]

EntryOk(e) == e.v = "Ok"

EntryErr(e) == ~EntryOk(e)

\* The fold of query_over_tunnels / exec_over_tunnels: Ok pushed to the
\* first vector, Err to the second, in the order Buffered yields (input order).
\* As fold_results, with each result put in front of the vector.
fold_results_in_front(ts, targets) ==
    LET rs == SelectSeq(TaskEntries(ts, targets), EntryOk)
    IN  [i \in 1 .. Len(rs) |-> rs[Len(rs) + 1 - i]]

fold_results(ts, targets) == SelectSeq(TaskEntries(ts, targets), EntryOk)

\* As fold_errors, with the vector replaced by the new error instead of
\* pushed to.
fold_errors_last_only(ts, targets) ==
    LET es == SelectSeq(TaskEntries(ts, targets), EntryErr)
    IN  IF es = <<>> THEN es ELSE <<es[Len(es)]>>

fold_errors(ts, targets) == SelectSeq(TaskEntries(ts, targets), EntryErr)

\* ------------------------------------------------------------------------
\* Chunks

\* opens: calls of open_ssh_session made for the chunk; requests: the calls
\* of open_direct_channel made for it, in order.
NewChunk ==
    [st |-> "new", session |-> "none", i |-> 0, map |-> EmptyMap, tasks |-> <<>>,
     prepare_err |-> "none", out_results |-> <<>>, out_errors |-> <<>>,
     opens |-> 0, requests |-> <<>>]

\* When 0 is the local port to forward, the OS chooses a free port.
LOCAL_OS_CHOSEN_PORT == 0

\* As open_direct_channel_request, asking for the database port locally.
open_direct_channel_request_fixed_port(target) ==
    [target |-> target, local_port |-> 3306]

\* The arguments of SshJumper::open_direct_channel for a target: the local
\* socket 127.0.0.1:LOCAL_OS_CHOSEN_PORT and the target's address.
open_direct_channel_request(target) ==
    [target |-> target, local_port |-> LOCAL_OS_CHOSEN_PORT]

\* As session_after_prepare_error, with the session kept by the caller.
session_kept_after_prepare_error == "open"

\* The session's state once try_fold's error has been returned with `?`:
\* ssh_session is a local of prepare_tunnels and is dropped with it.
session_after_prepare_error == "closed"

\* As map_after_prepare_error, with the endpoints opened so far returned.
map_kept_after_prepare_error(map) == map

\* What the caller gets of the endpoint map when prepare_tunnels returns
\* Err: the Result carries the error alone.
map_after_prepare_error(map) == EmptyMap

\* Number of futures in the outer Buffered queue: pushed and not yet yielded.
Pushed(ch) == Cardinality({c \in DOMAIN ch : ch[c].st \in {"run", "done"}})

\* As Preparing, with Then taking the next chunk while prepare_tunnels of
\* the last one is pending.
Preparing_not_awaited(ch) == {}

\* The chunk whose prepare_tunnels the Then combinator is awaiting.
Preparing(ch) == {c \in DOMAIN ch : ch[c].st = "prep"}

\* As NextChunk, with the stream of chunks ended by the first chunk whose
\* prepare_tunnels failed.
NextChunk_ended_by_error(ch) ==
    IF \E c \in DOMAIN ch : ch[c].prepare_err # "none" THEN Len(ch) + 1
    ELSE Cardinality({c \in DOMAIN ch : ch[c].st # "new"}) + 1

NextChunk(ch) == Cardinality({c \in DOMAIN ch : ch[c].st # "new"}) + 1

\* As session_after_chunk, with the session kept after the chunk future.
session_kept_after_chunk == "open"

\* The session's state once the chunk future has completed: the binding
\* _ssh_sessions of the Ok arm is dropped when the arm ends.
session_after_chunk == "closed"

\* As session_while_running, with the session matched by `_`, which drops
\* it at the match.
session_dropped_at_match == "closed"

\* The session's state while the chunk future runs: the binding keeps it.
session_while_running == "open"

RECURSIVE DoneChunks(_, _)
DoneChunks(ch, from) ==
    IF from > Len(ch) \/ ch[from].st # "done" THEN 0 ELSE 1 + DoneChunks(ch, from + 1)

RECURSIVE ConcatOut(_, _, _, _)
ConcatOut(ch, from, to, field) ==
    IF from > to THEN <<>>
    ELSE (IF field = "results" THEN ch[from].out_results ELSE ch[from].out_errors)
         \o ConcatOut(ch, from + 1, to, field)

\* The outer Buffered and fold, after `ch` has changed: completed chunk
\* futures are yielded in chunk order and their vectors appended; the call
\* returns when the chunk stream is exhausted and the queue is empty.
OuterPoll(ch) ==
    LET y == yielded + DoneChunks(ch, yielded + 1)
    IN  /\ chunk' = ch
        /\ yielded' = y
        /\ results' = results \o ConcatOut(ch, yielded + 1, y, "results")
        /\ errors' = errors \o ConcatOut(ch, yielded + 1, y, "errors")
        /\ pc' = IF y = Len(ch) /\ buffered_has_room(0, cfg.ssh_concurrent_limit)
                 THEN "done" ELSE "polling"
        /\ UNCHANGED <<cfg, exe, fetch, time>>

\* As ChunkFailed, with a session open that failed tried once more.
ChunkFailed_retries_open(c, e, sess) ==
    IF e = SshJumperSession /\ chunk[c].opens = 0
    THEN chunk[c]
    ELSE [chunk[c] EXCEPT !.st = "done", !.session = sess, !.prepare_err = e,
                          !.map = map_after_prepare_error(@),
                          !.out_errors = chunk_errors(Chunks[c], e)]

\* prepare_tunnels returned Err(e) for chunk c.
ChunkFailed(c, e, sess) ==
    [chunk[c] EXCEPT !.st = "done", !.session = sess, !.prepare_err = e,
                     !.map = map_after_prepare_error(@),
                     !.out_errors = chunk_errors(Chunks[c], e)]

\* As map_after_lookups, with HashMap::remove in place of HashMap::get.
map_after_lookups_taken(map, ts) ==
    [nm \in DOMAIN map |->
        IF \E j \in DOMAIN ts : ts[j].db_tunnel # 0 /\ ts[j].db_tunnel = map[nm]
        THEN 0 ELSE map[nm]]

\* The endpoint map after the per-target futures ts have looked their
\* endpoints up: they share `&qt_name_to_tunnel` and call get on it.
map_after_lookups(map, ts) == map

\* The per-target stage of chunk c after its tasks became ts: more futures
\* are pulled; when all are done the chunk future completes.
ChunkAfter(ch, targets, ts0) ==
    LET ts == buffered_fill(ts0, targets, ch.map, cfg.tunnels_per_ssh_connection)
    IN  IF \A j \in DOMAIN ts : ts[j].pc = "done"
        THEN [ch EXCEPT !.tasks = ts, !.st = "done", !.session = session_after_chunk,
                        !.map = map_after_lookups(@, ts),
                        !.out_results = fold_results(ts, targets),
                        !.out_errors = fold_errors(ts, targets)]
        ELSE [ch EXCEPT !.tasks = ts, !.map = map_after_lookups(@, ts)]

\* ------------------------------------------------------------------------
\* Actions of the batch call

\* First poll of query_multi / exec_multi: chunks(0) panics; otherwise the
\* pipeline is built and polled.
Call ==
    /\ pc = "start"
    /\ IF cfg.tunnels_per_ssh_connection = 0
       THEN /\ pc' = "panicked"
            /\ UNCHANGED <<cfg, chunk, yielded, results, errors, exe, fetch, time>>
       ELSE OuterPoll([c \in 1 .. NumChunks |-> NewChunk])

\* Then takes the next chunk when Buffered has room and polls it;
\* prepare_tunnels awaits SshJumper::open_ssh_session.
OpenSshSession ==
    /\ pc = "polling"
    /\ Preparing(chunk) = {}
    /\ NextChunk(chunk) <= Len(chunk)
    /\ buffered_has_room(Pushed(chunk) - yielded, cfg.ssh_concurrent_limit)
    /\ LET c == NextChunk(chunk)
       IN  \E ok \in BOOLEAN :
             IF ok
             THEN OuterPoll([chunk EXCEPT ![c] =
                               [@ EXCEPT !.st = "prep", !.session = "open", !.i = 1,
                                         !.opens = @ + 1,
                                         !.requests =
                                            <<open_direct_channel_request(Chunks[c][1])>>]])
             ELSE OuterPoll([chunk EXCEPT ![c] =
                               [ChunkFailed(c, SshJumperSession, "none")
                                   EXCEPT !.opens = @ + 1]])

\* As qt_name_to_tunnel_insert, with an entry already in the map kept
\* (what entry(name).or_insert(ssh_tunnel) would do).
qt_name_to_tunnel_insert_keeps_first(map, name, ssh_tunnel) ==
    IF map[name] # 0 THEN map ELSE [map EXCEPT ![name] = ssh_tunnel]

\* qt_name_to_tunnel.insert(query_target.name.as_ref(), ssh_tunnel):
\* HashMap::insert replaces the value an equal key already has. An endpoint
\* is named after the target whose db_address it forwards to.
qt_name_to_tunnel_insert(map, name, ssh_tunnel) == [map EXCEPT ![name] = ssh_tunnel]

\* prepare_tunnels' try_fold: one open_direct_channel per target, in order;
\* the first error ends the call and drops the session.
OpenDirectChannel ==
    /\ pc = "polling"
    /\ \E c \in Preparing(chunk) :
         LET ch == chunk[c]
             target == Chunks[c][ch.i]
         IN  \E ok \in BOOLEAN :
               IF ~ok
               THEN OuterPoll([chunk EXCEPT ![c] =
                                 ChunkFailed(c, SshJumperChannel, session_after_prepare_error)])
               ELSE LET map == qt_name_to_tunnel_insert(ch.map, Name(target), target)
                    IN  IF ch.i < Len(Chunks[c])
                        THEN OuterPoll([chunk EXCEPT ![c] =
                                          [ch EXCEPT !.i = ch.i + 1, !.map = map,
                                                     !.requests = Append(@,
                                                        open_direct_channel_request(
                                                            Chunks[c][ch.i + 1]))]])
                        ELSE LET run == [ch EXCEPT !.i = 0, !.map = map, !.st = "run",
                                                   !.session = session_while_running]
                                 idle == [j \in 1 .. Len(TaskTargets(c)) |-> IdleTask]
                             IN  OuterPoll([chunk EXCEPT ![c] =
                                               ChunkAfter(run, TaskTargets(c), idle)])

Running == {c \in DOMAIN chunk : chunk[c].st = "run"}

TasksAt(c, step) == {j \in DOMAIN chunk[c].tasks : chunk[c].tasks[j].pc = step}

TaskStep(c, j, t) ==
    OuterPoll([chunk EXCEPT ![c] =
                  ChunkAfter(chunk[c], TaskTargets(c), [chunk[c].tasks EXCEPT ![j] = t])])

\* query_run: get_conn, prep, exec_iter, query_result_fetch in this order;
\* the first error is the operation's result and ends it.
query_run_error_shifted(step) ==
    CASE step = "get_conn" -> "MySqlPrepare"
      [] step = "prep" -> "MySqlExecute"
      [] step = "exec_iter" -> "MySqlExecute"
      [] step = "fetch" -> "QueryResultSetFetch"

query_run_error(step) ==
    CASE step = "get_conn" -> "MySqlConnectionRetrieve"
      [] step = "prep" -> "MySqlPrepare"
      [] step = "exec_iter" -> "MySqlExecute"
      [] step = "fetch" -> "QueryResultSetFetch"

\* As query_run_next, with the statement executed before it is prepared.
query_run_next_exchanged(step) ==
    CASE step = "get_conn" -> "exec_iter"
      [] step = "exec_iter" -> "prep"
      [] step = "prep" -> "fetch"
      [] step = "fetch" -> "disconnect"

query_run_next(step) ==
    CASE step = "get_conn" -> "prep"
      [] step = "prep" -> "exec_iter"
      [] step = "exec_iter" -> "fetch"
      [] step = "fetch" -> "disconnect"

query_run_step(t, ok) ==
    IF ~ok THEN [t EXCEPT !.pc = "disconnect", !.op = query_run_error(t.pc), !.failed = t.pc]
    ELSE IF t.pc = "fetch" THEN [t EXCEPT !.pc = "disconnect", !.op = "Ok"]
    ELSE [t EXCEPT !.pc = query_run_next(t.pc), !.steps = Append(@, query_run_next(t.pc))]

\* pool.get_conn().await
GetConn ==
    /\ pc = "polling"
    /\ \E c \in Running : \E j \in TasksAt(c, "get_conn") : \E ok \in BOOLEAN :
          TaskStep(c, j, query_run_step(chunk[c].tasks[j], ok))

\* conn.prep(sql_text).await
Prep ==
    /\ pc = "polling"
    /\ \E c \in Running : \E j \in TasksAt(c, "prep") : \E ok \in BOOLEAN :
          TaskStep(c, j, query_run_step(chunk[c].tasks[j], ok))

\* conn.exec_iter(statement, ()).await
ExecIter ==
    /\ pc = "polling"
    /\ \E c \in Running : \E j \in TasksAt(c, "exec_iter") : \E ok \in BOOLEAN :
          TaskStep(c, j, query_run_step(chunk[c].tasks[j], ok))

\* query_result_fetch(..).await, as one step: Ok with the result sets, or
\* the error of the first collect that fails.
QueryResultFetch ==
    /\ pc = "polling"
    /\ \E c \in Running : \E j \in TasksAt(c, "fetch") : \E ok \in BOOLEAN :
          TaskStep(c, j, query_run_step(chunk[c].tasks[j], ok))

\* exec_multi: the caller's operation (FnWithPool::call) returns the pool
\* with Ok or with an error of the caller's.
OperationCall ==
    /\ pc = "polling"
    /\ \E c \in Running : \E j \in TasksAt(c, "call") : \E ok \in BOOLEAN :
          TaskStep(c, j, [chunk[c].tasks[j] EXCEPT !.pc = "disconnect",
                                                  !.op = IF ok THEN "Ok" ELSE "OperationError",
                                                  !.failed = IF ok THEN "none" ELSE "call"])

\* What the scoped executor used per target (SqlOverSsh::exec) returns: the
\* operation's own error first, else the disconnect error, else the output.
exec_return(op, disconnect_ok) ==
    IF op # "Ok" THEN op
    ELSE IF disconnect_ok THEN op ELSE "MySqlPoolDisconnect"

\* The pool's disconnect, awaited after the operation whatever it returned.
PoolDisconnect ==
    /\ pc = "polling"
    /\ \E c \in Running : \E j \in TasksAt(c, "disconnect") : \E ok \in BOOLEAN :
          TaskStep(c, j, [chunk[c].tasks[j] EXCEPT !.pc = "done",
                                                  !.disconnects = @ + 1,
                                                  !.ret = exec_return(chunk[c].tasks[j].op, ok),
                                                  !.failed = IF ok \/ @ # "none" THEN @
                                                             ELSE "disconnect"])

\* ------------------------------------------------------------------------
\* SqlOverSsh::execute, invoked MaxExecutes times concurrently.

Executes == 1 .. MaxExecutes

Outputs == 1 .. MaxOutput

OperationResults == {<<"Ok", o>> : o \in Outputs} \cup {<<"Err", "OperationError">>}

ExecuteStart ==
    [pc |-> "start", pool |-> "none", op |-> <<"None">>, ret |-> <<"None">>,
     calls |-> 0, disconnects |-> 0, constraints |-> <<>>]

\* PoolConstraints::new(min, max) is Some when min <= max.
pool_constraints_new(min, max) == min <= max

\* db_pool_initialize after open_tunnel returned Ok, then queries.call(pool).
execute_pool_built(e) ==
    IF pool_constraints_new(PoolMin, PoolMax)
    THEN [e EXCEPT !.pc = "call", !.pool = "built", !.calls = @ + 1,
                   !.constraints = <<PoolMin, PoolMax>>]
    ELSE [e EXCEPT !.pc = "returned", !.ret = <<"Err", "PoolConstraintsInitialize">>]

\* As execute_after_call, with `result?` before the disconnect.
execute_after_call_early_return(e, r) ==
    IF r[1] = "Err" THEN [e EXCEPT !.pc = "returned", !.op = r, !.ret = r]
    ELSE [e EXCEPT !.pc = "disconnect", !.op = r, !.disconnects = @ + 1]

\* queries.call(pool).await returned (pool, result): pool.disconnect() is called.
execute_after_call(e, r) ==
    [e EXCEPT !.pc = "disconnect", !.op = r, !.disconnects = @ + 1]

\* As execute_return, with the disconnect's result dropped.
execute_return_disconnect_ignored(op, disconnect_ok) == op

\* As execute_return, with the two `?` in the other order.
execute_return_operation_first(op, disconnect_ok) ==
    IF op[1] = "Err" THEN op
    ELSE IF disconnect_ok THEN op ELSE <<"Err", "MySqlPoolDisconnect">>

\* pool.disconnect().await.map_err(Error::MySqlPoolDisconnect)?; let data = result?; Ok(data)
execute_return(op, disconnect_ok) ==
    IF ~disconnect_ok THEN <<"Err", "MySqlPoolDisconnect">> ELSE op

\* As execute_pool_failed, with the error kept aside and the operation
\* called on a pool that was not built.
execute_pool_failed_calls(e, err) ==
    [e EXCEPT !.pc = "call", !.calls = @ + 1]

\* db_pool_initialize returned Err: `.await?` (line 50) returns it.
execute_pool_failed(e, err) ==
    [e EXCEPT !.pc = "returned", !.ret = <<"Err", err>>]

ExecuteOpenTunnel ==
    \E k \in Executes : \E ok \in BOOLEAN :
      /\ exe[k].pc = "start"
      /\ exe' = [exe EXCEPT ![k] =
                   IF ok THEN execute_pool_built(@)
                   ELSE execute_pool_failed(@, "SshJumper(open_tunnel)")]
      /\ UNCHANGED <<batch_vars, fetch, time>>

ExecuteCall ==
    \E k \in Executes : \E r \in OperationResults :
      /\ exe[k].pc = "call"
      /\ exe' = [exe EXCEPT ![k] = execute_after_call(@, r)]
      /\ UNCHANGED <<batch_vars, fetch, time>>

ExecuteDisconnect ==
    \E k \in Executes : \E ok \in BOOLEAN :
      /\ exe[k].pc = "disconnect"
      /\ exe' = [exe EXCEPT ![k] = [@ EXCEPT !.pc = "returned",
                                              !.pool = IF ok THEN "disconnected"
                                                       ELSE "disconnect_failed",
                                              !.ret = execute_return(exe[k].op, ok)]]
      /\ UNCHANGED <<batch_vars, fetch, time>>

\* ------------------------------------------------------------------------
\* QueryRunner::query_result_fetch over a mysql_async::QueryResult cursor.
\*
\* The cursor holds the result sets not yet collected; is_empty() is true
\* when none is left; collect() yields the rows of the first one and moves
\* past it, after which affected_rows(), warnings() and info() are read
\* for the result set collected.

\* A result set of the query execution, as the cursor gives it.
CursorSets ==
    [values : Outputs, affected_rows : Outputs, warning_count : {0}, info : {"info"}]

RECURSIVE SeqsUpTo(_, _)
SeqsUpTo(S, n) ==
    IF n = 0 THEN {<<>>}
    ELSE LET shorter == SeqsUpTo(S, n - 1)
         IN  shorter \cup {Append(q, x) : q \in {r \in shorter : Len(r) = n - 1}, x \in S}

Cursors == SeqsUpTo(CursorSets, MaxSets)

\* given: the result sets of the execution; cursor: those not yet
\* collected; collects: calls of collect made.
FetchStart(name, sets) ==
    [pc |-> "loop", name |-> name, given |-> sets, cursor |-> sets,
     result_sets |-> <<>>, collects |-> 0, ret |-> <<"None">>]

\* ResultSet::<T> { affected_rows, info, warning_count, values }
ResultSet(values, set) ==
    [affected_rows |-> set.affected_rows, info |-> set.info,
     warning_count |-> set.warning_count, values |-> values]

\* As fetch_collect_ok, with the result set put in front of the others.
fetch_collect_ok_in_front(f) ==
    LET set == Head(f.cursor)
    IN  [f EXCEPT !.cursor = Tail(@), !.collects = @ + 1,
                  !.result_sets = <<ResultSet(set.values, set)>> \o @]

\* One turn of the loop whose collect returned Ok: the result set is built
\* and pushed.
fetch_collect_ok(f) ==
    LET set == Head(f.cursor)
    IN  [f EXCEPT !.cursor = Tail(@), !.collects = @ + 1,
                  !.result_sets = Append(@, ResultSet(set.values, set))]

\* As fetch_collect_err, with the loop left by `break` instead of `?`.
fetch_collect_err_keeps_sets(f) ==
    [f EXCEPT !.pc = "returned", !.collects = @ + 1,
              !.ret = <<"Ok", [name |-> f.name, result_sets |-> f.result_sets]>>]

\* One turn of the loop whose collect returned Err:
\* .map_err(Error::QueryResultSetFetch)? returns, dropping result_sets.
fetch_collect_err(f) ==
    [f EXCEPT !.pc = "returned", !.collects = @ + 1, !.result_sets = <<>>,
              !.ret = <<"Err", "QueryResultSetFetch">>]

\* while !query_result.is_empty() { query_result.collect::<T>().await ... }
FetchCollect ==
    /\ fetch.pc = "loop"
    /\ fetch.cursor # <<>>
    /\ \E ok \in BOOLEAN :
         fetch' = IF ok THEN fetch_collect_ok(fetch) ELSE fetch_collect_err(fetch)
    /\ UNCHANGED <<batch_vars, exe, time>>

\* The loop ends: Ok(QueryResult { name, result_sets }).
FetchReturn ==
    /\ fetch.pc = "loop"
    /\ fetch.cursor = <<>>
    /\ fetch' = [fetch EXCEPT !.pc = "returned", !.result_sets = <<>>,
                              !.ret = <<"Ok", [name |-> fetch.name,
                                               result_sets |-> fetch.result_sets]>>]
    /\ UNCHANGED <<batch_vars, exe, time>>

\* query_run returns what query_result_fetch returned; the per-target
\* future maps the executor's Err to a QueryError and the fold of
\* query_over_tunnels pushes it to results or to errors.
QueryRunReturn ==
    /\ fetch.pc = "returned"
    /\ \E disconnect_ok \in BOOLEAN :
         LET op == IF fetch.ret[1] = "Ok" THEN "Ok" ELSE fetch.ret[2]
             ts == <<[ret |-> exec_return(op, disconnect_ok)]>>
         IN  /\ results' = fold_results(ts, <<1>>)
             /\ errors' = fold_errors(ts, <<1>>)
    /\ fetch' = [fetch EXCEPT !.pc = "folded"]
    /\ UNCHANGED <<cfg, pc, chunk, yielded, exe, time>>

\* ------------------------------------------------------------------------
\* value_time_serde: Value::Time(chrono::Duration) written as the struct
\* { secs, nanos } and read back.
\*
\* A chrono::Duration is kept as chrono keeps it: whole seconds rounded
\* down and 0 <= nanos < NANOS_PER_SEC.

NANOS_PER_SEC == 1000 * 1000 * 1000

\* Duration::zero()
zero == [secs |-> 0, nanos |-> 0]

\* Duration::seconds(s)
seconds(s) == [secs |-> s, nanos |-> 0]

\* Duration::nanoseconds(n): div_mod_floor by NANOS_PER_SEC.
nanoseconds(n) ==
    LET m == n % NANOS_PER_SEC
    IN  [secs |-> (n - m) \div NANOS_PER_SEC, nanos |-> m]

\* a + b
duration_add(a, b) ==
    LET n == a.nanos + b.nanos
    IN  IF n >= NANOS_PER_SEC
        THEN [secs |-> a.secs + b.secs + 1, nanos |-> n - NANOS_PER_SEC]
        ELSE [secs |-> a.secs + b.secs, nanos |-> n]

\* a - b
duration_sub(a, b) ==
    LET n == a.nanos - b.nanos
    IN  IF n < 0
        THEN [secs |-> a.secs - b.secs - 1, nanos |-> n + NANOS_PER_SEC]
        ELSE [secs |-> a.secs - b.secs, nanos |-> n]

\* a < b
duration_lt(a, b) == a.secs < b.secs \/ (a.secs = b.secs /\ a.nanos < b.nanos)

\* As num_seconds, rounding down instead of towards zero.
num_seconds_floor(d) == d.secs

\* Duration::num_seconds: the whole seconds, rounded towards zero.
num_seconds(d) == IF d.secs < 0 /\ d.nanos > 0 THEN d.secs + 1 ELSE d.secs

\* Duration::num_nanoseconds of a duration of less than two seconds.
num_nanoseconds(d) ==
    num_seconds(d) * NANOS_PER_SEC
    + (IF d.secs < 0 /\ d.nanos > 0 THEN d.nanos - NANOS_PER_SEC ELSE d.nanos)

\* value_time_serde::serialize: the struct's fields, in the order written.
serialize(duration) ==
    LET is_negative == duration_lt(duration, zero)
        secs0 == num_seconds(duration)
        nanos == num_nanoseconds(duration_sub(duration, seconds(secs0)))
        secs == IF is_negative /\ nanos > 0 THEN secs0 - 1 ELSE secs0
    IN  <<<<"secs", secs>>, <<"nanos", nanos>>>>

\* DurationVisitor::visit_map over the entries left, with the fields read
\* so far (<<>>: None, <<v>>: Some(v)).
RECURSIVE visit_map(_, _, _)
visit_map(entries, secs, nanos) ==
    IF entries = <<>>
    THEN IF secs = <<>> THEN <<"Err", "missing_field(secs)">>
         ELSE IF nanos = <<>> THEN <<"Err", "missing_field(nanos)">>
         ELSE <<"Ok", duration_add(seconds(secs[1]), nanoseconds(nanos[1]))>>
    ELSE LET key == Head(entries)[1]
             value == Head(entries)[2]
         IN  IF key = "secs"
             THEN IF secs # <<>> THEN <<"Err", "duplicate_field(secs)">>
                  ELSE visit_map(Tail(entries), <<value>>, nanos)
             ELSE IF key = "nanos"
             THEN IF nanos # <<>> THEN <<"Err", "duplicate_field(nanos)">>
                  ELSE visit_map(Tail(entries), secs, <<value>>)
             ELSE <<"Err", "unknown_field">>

\* value_time_serde::deserialize of a struct written as a map.
deserialize(entries) == visit_map(entries, <<>>, <<>>)

\* The sub-second parts of the durations tried, in nanoseconds.
SubSecNanos == {0, 1, 456, NANOS_PER_SEC - 456, NANOS_PER_SEC - 1}

\* The durations tried: those of up to MaxSecs seconds either way, and
\* those about 123 seconds either way.
Durations ==
    [secs : (-(MaxSecs + 1) .. MaxSecs) \cup {123, -124}, nanos : SubSecNanos]

TimeStart(d) == [pc |-> "value", duration |-> d, written |-> <<>>, read |-> <<"None">>]

\* serde_json::to_string(&Value::Time(d))
TimeSerialize ==
    /\ time.pc = "value"
    /\ time' = [time EXCEPT !.pc = "written", !.written = serialize(time.duration)]
    /\ UNCHANGED <<batch_vars, exe, fetch>>

\* serde_json::from_str of what was written.
TimeDeserialize ==
    /\ time.pc = "written"
    /\ time' = [time EXCEPT !.pc = "read", !.read = deserialize(time.written)]
    /\ UNCHANGED <<batch_vars, exe, fetch>>

\* ------------------------------------------------------------------------
\* Specifications

BatchStart(c) ==
    /\ cfg = c
    /\ pc = "start"
    /\ chunk = <<>>
    /\ yielded = 0
    /\ results = <<>>
    /\ errors = <<>>

Init ==
    /\ \E c \in Configs : BatchStart(c)
    /\ exe = [k \in Executes |-> ExecuteStart]
    /\ fetch = FetchStart(1, <<>>)
    /\ time = TimeStart(zero)

Next ==
    \/ Call
    \/ OpenSshSession
    \/ OpenDirectChannel
    \/ GetConn
    \/ Prep
    \/ ExecIter
    \/ QueryResultFetch
    \/ OperationCall
    \/ PoolDisconnect

Spec == Init /\ [][Next]_vars

\* The executor polls every future that can make progress.
FairSpec == Spec /\ WF_vars(Next)

\* SqlOverSsh::execute on the executor of QueryRunner::default().
InitExecute ==
    /\ BatchStart([mode |-> "query_multi",
                   ssh_concurrent_limit |-> QueryRunner_default.ssh_concurrent_limit,
                   tunnels_per_ssh_connection |->
                       QueryRunner_default.tunnels_per_ssh_connection,
                   names |-> <<>>])
    /\ exe = [k \in Executes |-> ExecuteStart]
    /\ fetch = FetchStart(1, <<>>)
    /\ time = TimeStart(zero)

NextExecute ==
    \/ ExecuteOpenTunnel
    \/ ExecuteCall
    \/ ExecuteDisconnect

SpecExecute == InitExecute /\ [][NextExecute]_vars

\* query_multi on lists in which some targets share a name.
InitDuplicateNames ==
    /\ \E c \in DuplicateNameConfigs : BatchStart(c)
    /\ exe = [k \in Executes |-> ExecuteStart]
    /\ fetch = FetchStart(1, <<>>)
    /\ time = TimeStart(zero)

NextQueryMulti ==
    \/ Call
    \/ OpenSshSession
    \/ OpenDirectChannel
    \/ GetConn
    \/ Prep
    \/ ExecIter
    \/ QueryResultFetch
    \/ PoolDisconnect

SpecDuplicateNames == InitDuplicateNames /\ [][NextQueryMulti]_vars

\* query_result_fetch for the one target of a batch, on every cursor of up
\* to MaxSets result sets.
InitFetch ==
    /\ BatchStart([mode |-> "query_multi", ssh_concurrent_limit |-> 1,
                   tunnels_per_ssh_connection |-> 1, names |-> <<1>>])
    /\ exe = [k \in Executes |-> ExecuteStart]
    /\ \E sets \in Cursors : fetch = FetchStart(1, sets)
    /\ time = TimeStart(zero)

NextFetch ==
    \/ FetchCollect
    \/ FetchReturn
    \/ QueryRunReturn

SpecFetch == InitFetch /\ [][NextFetch]_vars

\* Value::Time(d) written and read back, for every d of Durations.
InitTime ==
    /\ BatchStart([mode |-> "query_multi", ssh_concurrent_limit |-> 0,
                   tunnels_per_ssh_connection |-> 0, names |-> <<>>])
    /\ exe = [k \in Executes |-> ExecuteStart]
    /\ fetch = FetchStart(1, <<>>)
    /\ \E d \in Durations : time = TimeStart(d)

NextTime ==
    \/ TimeSerialize
    \/ TimeDeserialize

SpecTime == InitTime /\ [][NextTime]_vars

\* ------------------------------------------------------------------------
\* Properties

NamesOf(es) == {es[i].name : i \in DOMAIN es}

TargetsOf(es) == {es[i].target : i \in DOMAIN es}

QueryMulti == cfg.mode = "query_multi"

ExecMulti == cfg.mode = "exec_multi"

SessionsOpen == Cardinality({c \in DOMAIN chunk : chunk[c].session = "open"})

PrepareFailed(c) == chunk[c].prepare_err # "none"

InFlight(t) == t.pc \in {"get_conn", "prep", "exec_iter", "fetch", "call", "disconnect"}

\* C1: when query_multi has returned for targets with pairwise distinct
\* names, the names in results and the names in errors are disjoint and
\* together are the names of the input targets.
C1_PartitionComplete ==
    (pc = "done" /\ QueryMulti /\ DistinctNames) =>
        /\ NamesOf(results) \cap NamesOf(errors) = {}
        /\ NamesOf(results) \cup NamesOf(errors) = Range(cfg.names)

\* A batch of three chunks has returned with a chunk-level error, a
\* per-target error and a result.
C1_Witness ==
    /\ pc = "done" /\ QueryMulti /\ DistinctNames
    /\ NumTargets = 3 /\ Len(chunk) = 3
    /\ results # <<>>
    /\ \E i, j \in DOMAIN errors :
         /\ errors[i].v = SshJumperSession
         /\ errors[j].v = "MySqlPoolDisconnect"

\* C2: when exec_multi has returned for n targets with distinct names, every
\* target appears exactly once across outputs and errors, n entries in all.
C2_EveryTargetOnce ==
    (pc = "done" /\ ExecMulti /\ DistinctNames) =>
        /\ Len(results) + Len(errors) = NumTargets
        /\ \A t \in 1 .. NumTargets :
             Cardinality({i \in DOMAIN results : results[i].target = t})
             + Cardinality({i \in DOMAIN errors : errors[i].target = t}) = 1

\* C3: in SqlOverSsh::execute a built pool's disconnect is never attempted
\* twice, and once the call has returned it has been attempted exactly once,
\* whether the operation returned Ok or Err.
C3_DisconnectExactlyOnce ==
    \A k \in Executes :
        /\ exe[k].disconnects <= 1
        /\ (exe[k].pc = "returned" /\ exe[k].pool # "none") => exe[k].disconnects = 1

\* One call has returned after an operation error, another after an
\* operation success, each with its pool's disconnect attempted once.
C3_Witness ==
    /\ exe[1].pc = "returned" /\ exe[1].op = <<"Err", "OperationError">>
    /\ exe[1].disconnects = 1
    /\ exe[2].pc = "returned" /\ exe[2].op[1] = "Ok" /\ exe[2].disconnects = 1

\* C4 as stated: when the operation returned an error and the disconnect
\* failed too, execute returns the operation's error.
C4_OperationErrorReturned ==
    \A k \in Executes :
        (exe[k].pc = "returned" /\ exe[k].pool = "disconnect_failed" /\ exe[k].op[1] = "Err")
            => exe[k].ret = exe[k].op

\* C4 amended: when the operation returned an error, execute returns the
\* MySqlPoolDisconnect error if the disconnect failed too, and the
\* operation's error only if the disconnect succeeded.
C4_DisconnectErrorReturned ==
    \A k \in Executes :
        (exe[k].pc = "returned" /\ exe[k].pool # "none" /\ exe[k].op[1] = "Err")
            => exe[k].ret = IF exe[k].pool = "disconnect_failed"
                            THEN <<"Err", "MySqlPoolDisconnect">>
                            ELSE exe[k].op

\* A call has returned after both the operation and the disconnect failed.
C4_Witness ==
    \E k \in Executes :
        /\ exe[k].pc = "returned"
        /\ exe[k].pool = "disconnect_failed"
        /\ exe[k].op = <<"Err", "OperationError">>

\* C5: with ssh_concurrent_limit = L >= 1, at most L sessions opened by
\* prepare_tunnels are open at any time, the one of a chunk still being
\* prepared included.
C5_SessionsBounded ==
    cfg.ssh_concurrent_limit >= 1 => SessionsOpen <= cfg.ssh_concurrent_limit

\* With a limit of 2, two sessions are open and a third chunk waits.
C5_Witness ==
    /\ cfg.ssh_concurrent_limit = 2
    /\ SessionsOpen = 2
    /\ NextChunk(chunk) <= Len(chunk)

\* C6: in query_multi a per-target execution that is using its endpoint
\* (from the pool build up to the disconnect) runs while the chunk's session
\* is open, and the session is closed only when every per-target execution
\* of the chunk is done.
C6_SessionOutlivesExecutions ==
    QueryMulti =>
        \A c \in DOMAIN chunk :
            /\ \A j \in DOMAIN chunk[c].tasks :
                 InFlight(chunk[c].tasks[j]) => chunk[c].session = "open"
            /\ chunk[c].session = "closed" =>
                 \A j \in DOMAIN chunk[c].tasks : chunk[c].tasks[j].pc = "done"

\* A chunk of two targets has released its session after one execution
\* succeeded and the other failed.
C6_Witness ==
    /\ QueryMulti
    /\ \E c \in DOMAIN chunk :
         /\ chunk[c].session = "closed"
         /\ Len(chunk[c].tasks) = 2
         /\ chunk[c].tasks[1].ret = "Ok"
         /\ chunk[c].tasks[2].ret = "MySqlExecute"

ErrorsOfChunk(c) ==
    LET InChunk(e) == e.target \in Range(Chunks[c])
    IN  SelectSeq(errors, InChunk)

\* C7 as stated: when prepare_tunnels fails for a chunk of k targets, the
\* chunk yields k QueryErrors, one per target, all carrying the error
\* prepare_tunnels returned.
C7_AllCarryPrepareError ==
    QueryMulti =>
        \A c \in DOMAIN chunk :
            PrepareFailed(c) =>
                /\ Len(chunk[c].out_errors) = Len(Chunks[c])
                /\ \A j \in 1 .. Len(Chunks[c]) :
                     chunk[c].out_errors[j] = Entry(Chunks[c][j], chunk[c].prepare_err)

\* C7 amended: when prepare_tunnels fails for a chunk of k targets, the chunk
\* yields no result and k QueryErrors, one per target in the chunk's order;
\* the first carries the error prepare_tunnels returned and the others carry
\* Error::SshConnInit; these are the chunk's entries of the returned errors.
C7_FirstCarriesPrepareError ==
    QueryMulti =>
        \A c \in DOMAIN chunk :
            PrepareFailed(c) =>
                /\ chunk[c].out_results = <<>>
                /\ Len(chunk[c].out_errors) = Len(Chunks[c])
                /\ \A j \in 1 .. Len(Chunks[c]) :
                     chunk[c].out_errors[j] =
                        Entry(Chunks[c][j], IF j = 1 THEN chunk[c].prepare_err
                                            ELSE "SshConnInit")
                /\ pc = "done" => ErrorsOfChunk(c) = chunk[c].out_errors

\* query_multi has returned after prepare_tunnels failed at the second
\* endpoint of a chunk of two targets.
C7_Witness ==
    /\ QueryMulti /\ pc = "done"
    /\ \E c \in DOMAIN chunk :
         /\ chunk[c].prepare_err = SshJumperChannel
         /\ Len(Chunks[c]) = 2
         /\ Len(ErrorsOfChunk(c)) = 2

\* Every collaborator call of the batch succeeded, but for the calls of the
\* j-th per-target execution of chunk c.
OthersSucceed(c, j) ==
    /\ \A d \in DOMAIN chunk : ~PrepareFailed(d)
    /\ \A d \in DOMAIN chunk : \A i \in DOMAIN chunk[d].tasks :
         <<d, i>> # <<c, j>> =>
            /\ chunk[d].tasks[i].failed = "none"
            /\ chunk[d].tasks[i].db_tunnel # 0

\* C8: when query_multi has returned and one target's connection acquire was
\* the only failure, that target is the only entry of errors, with the kind
\* MySqlConnectionRetrieve, and every other target is in results.
C8_OnlyBadTargetFails ==
    (pc = "done" /\ QueryMulti) =>
        \A c \in DOMAIN chunk : \A j \in DOMAIN chunk[c].tasks :
            (chunk[c].tasks[j].failed = "get_conn" /\ OthersSucceed(c, j)) =>
                /\ errors = <<Entry(Chunks[c][j], "MySqlConnectionRetrieve")>>
                /\ TargetsOf(results) = (1 .. NumTargets) \ {Chunks[c][j]}
                /\ Len(results) = NumTargets - 1
                /\ \A i \in DOMAIN results : results[i].v = "Ok"

\* Three targets in chunks of two: the first target's connection acquire
\* failed, its chunk sibling and the target of the other chunk succeeded.
C8_Witness ==
    /\ pc = "done" /\ QueryMulti
    /\ NumTargets = 3 /\ cfg.tunnels_per_ssh_connection = 2
    /\ Len(chunk[1].tasks) = 2
    /\ chunk[1].tasks[1].failed = "get_conn"
    /\ OthersSucceed(1, 1)

WellFormed == cfg.ssh_concurrent_limit >= 1 /\ cfg.tunnels_per_ssh_connection >= 1

\* Awaits a per-target future still has to complete, itself included.
AwaitsLeft(t) ==
    CASE t.pc = "idle" -> 6
      [] t.pc = "get_conn" -> 5
      [] t.pc = "prep" -> 4
      [] t.pc = "exec_iter" -> 3
      [] t.pc \in {"fetch", "call"} -> 2
      [] t.pc = "disconnect" -> 1
      [] t.pc = "done" -> 0

RECURSIVE TasksLeft(_)
TasksLeft(ts) == IF ts = <<>> THEN 0 ELSE AwaitsLeft(Head(ts)) + TasksLeft(Tail(ts))

\* Upper bound of the awaits chunk c still has to complete.
ChunkLeft(c, ch) ==
    CASE ch.st = "new" -> 1 + Len(Chunks[c]) + 6 * Len(TaskTargets(c))
      [] ch.st = "prep" -> (Len(Chunks[c]) - ch.i + 1) + 6 * Len(TaskTargets(c))
      [] ch.st = "run" -> TasksLeft(ch.tasks)
      [] ch.st = "done" -> 0

RECURSIVE ChunksLeft(_, _)
ChunksLeft(ch, c) == IF c > Len(ch) THEN 0 ELSE ChunkLeft(c, ch[c]) + ChunksLeft(ch, c + 1)

\* Upper bound of the awaits the call still has to complete.
StepsLeft ==
    CASE pc = "start" -> 1 + ChunksLeft([c \in 1 .. NumChunks |-> NewChunk], 1)
      [] pc = "polling" -> ChunksLeft(chunk, 1)
      [] OTHER -> 0

\* C9: with both limits at least 1 and every collaborator call returning,
\* query_multi returns its (results, errors) pair: it never panics, until
\* it has returned some await of it can complete, and each completed await
\* leaves strictly fewer to complete, so that no run goes on for ever.
C9_BatchReturns ==
    /\ []((QueryMulti /\ WellFormed) =>
            (pc # "panicked" /\ (pc = "done" \/ ENABLED Next)))
    /\ [][(QueryMulti /\ WellFormed) => StepsLeft' < StepsLeft]_vars

\* query_multi has returned with no result and an error for each of three
\* targets, the failures being in different stages.
C9_Witness ==
    /\ pc = "done" /\ QueryMulti
    /\ NumTargets = 3
    /\ results = <<>>
    /\ Len(errors) = 3
    /\ \E i, j \in DOMAIN errors :
         /\ errors[i].v = SshJumperSession
         /\ errors[j].v = "MySqlConnectionRetrieve"

SessionsOpened == Cardinality({c \in DOMAIN chunk : chunk[c].session # "none"})

\* C10: with ssh_concurrent_limit = 0 or tunnels_per_ssh_connection = 0 and
\* at least one target, query_multi opens no session and ends in failure: it
\* is never left pending with nothing to wake it.
C10_MalformedFailsOutright ==
    (QueryMulti /\ ~WellFormed /\ NumTargets > 0) =>
        /\ SessionsOpened = 0
        /\ pc # "done"
        /\ pc = "panicked" \/ ENABLED Next

\* The names of the targets of chunk c.
ChunkNames(c) == {Name(Chunks[c][j]) : j \in 1 .. Len(Chunks[c])}

\* The keys of an endpoint map.
Keys(map) == {nm \in DOMAIN map : map[nm] # 0}

\* The first k calls of open_direct_channel prepare_tunnels makes for chunk c.
RequestsFor(c, k) == [j \in 1 .. k |-> [target |-> Chunks[c][j], local_port |-> 0]]

\* C11: when opening the endpoint of a target of the chunk fails,
\* prepare_tunnels has returned the error and no endpoint map, has
\* requested an endpoint for the targets up to the failing one and for none
\* after it, starts no per-target execution, and its session is closed.
C11_PrepareAtomic ==
    \A c \in DOMAIN chunk :
        chunk[c].prepare_err = SshJumperChannel =>
            /\ chunk[c].st = "done"
            /\ Keys(chunk[c].map) = {}
            /\ chunk[c].tasks = <<>>
            /\ chunk[c].i \in 1 .. Len(Chunks[c])
            /\ chunk[c].requests = RequestsFor(c, chunk[c].i)
            /\ chunk[c].session = "closed"

\* The first endpoint of a chunk of two targets could not be opened.
C11_Witness ==
    \E c \in DOMAIN chunk :
        /\ chunk[c].prepare_err = SshJumperChannel
        /\ Len(Chunks[c]) = 2
        /\ Len(chunk[c].requests) = 1

\* C12: for targets with distinct names, once prepare_tunnels has returned
\* Ok for a chunk it has opened one session and requested one endpoint per
\* target of the chunk, in order, each with local port 0, and the keys of
\* the returned map are the names of the chunk's targets; when the session
\* open failed, no endpoint was requested.
C12_OneSessionOneEndpointEach ==
    DistinctNames =>
        \A c \in DOMAIN chunk :
            /\ (chunk[c].st \in {"run", "done"} /\ ~PrepareFailed(c)) =>
                  /\ chunk[c].opens = 1
                  /\ chunk[c].requests = RequestsFor(c, Len(Chunks[c]))
                  /\ Keys(chunk[c].map) = ChunkNames(c)
                  /\ Cardinality(Keys(chunk[c].map)) = Len(Chunks[c])
            /\ chunk[c].prepare_err = SshJumperSession =>
                  /\ chunk[c].opens = 1
                  /\ chunk[c].requests = <<>>

\* prepare_tunnels has returned Ok for a chunk of two targets, and has
\* returned the session error for another chunk.
C12_Witness ==
    /\ DistinctNames
    /\ \E c, d \in DOMAIN chunk :
         /\ chunk[c].st = "run" /\ Len(Chunks[c]) = 2
         /\ Len(chunk[c].requests) = 2
         /\ chunk[d].prepare_err = SshJumperSession
\* The ResultSets query_result_fetch builds from the first k result sets
\* of the execution.
BuiltFrom(sets, k) == [i \in 1 .. k |-> ResultSet(sets[i].values, sets[i])]

\* A call of collect returned Err: the call was made and its result set
\* was not taken from the cursor.
CollectFailed ==
    /\ fetch.pc \in {"returned", "folded"}
    /\ fetch.collects + Len(fetch.cursor) > Len(fetch.given)

\* C13: while no collect has failed, query_result_fetch has assembled the
\* result sets collected so far, in the execution's order, one ResultSet per
\* result set with its rows, affected_rows, warning_count and info; when it
\* returns, it returns Ok with the target's name and exactly the m
\* ResultSets of R1 .. Rm in this order.
C13_ResultSetsInOrder ==
    ~CollectFailed =>
        /\ fetch.pc = "loop" =>
              /\ fetch.collects + Len(fetch.cursor) = Len(fetch.given)
              /\ fetch.result_sets = BuiltFrom(fetch.given, fetch.collects)
        /\ fetch.pc \in {"returned", "folded"} =>
              /\ fetch.collects = Len(fetch.given)
              /\ fetch.ret = <<"Ok", [name |-> fetch.name,
                                      result_sets |-> BuiltFrom(fetch.given,
                                                                Len(fetch.given))]>>

\* query_result_fetch has returned three result sets, the first and the
\* last equal and the second different.
C13_Witness ==
    /\ fetch.pc = "returned" /\ fetch.ret[1] = "Ok"
    /\ Len(fetch.given) = 3
    /\ fetch.given[1] = fetch.given[3] /\ fetch.given[1] # fetch.given[2]
    /\ Len(fetch.ret[2].result_sets) = 3

\* C14: when the j-th collect fails, query_result_fetch returns the
\* QueryResultSetFetch error and none of the j - 1 ResultSets assembled,
\* leaves the later result sets uncollected, and the target's entry of the
\* batch is a QueryError and no QueryResult.
C14_AllOrNothing ==
    CollectFailed =>
        /\ fetch.ret = <<"Err", "QueryResultSetFetch">>
        /\ fetch.result_sets = <<>>
        /\ Len(fetch.cursor) = Len(fetch.given) - fetch.collects + 1
        /\ fetch.pc = "folded" =>
              /\ results = <<>>
              /\ errors = <<Entry(1, "QueryResultSetFetch")>>

\* The second collect of three failed and the target's entry has been
\* pushed.
C14_Witness ==
    /\ CollectFailed /\ fetch.pc = "folded"
    /\ Len(fetch.given) = 3 /\ fetch.collects = 2
\* C15: when pool construction failed in SqlOverSsh::execute (the pool was
\* not built), the call has returned the construction error, the
\* operation was not invoked and no disconnect was attempted; the
\* operation is invoked only on a built pool.
C15_PoolFailureShortCircuits ==
    \A k \in Executes :
        /\ (exe[k].pc # "start" /\ exe[k].pool = "none") =>
              /\ exe[k].pc = "returned"
              /\ exe[k].ret \in {<<"Err", "SshJumper(open_tunnel)">>,
                                 <<"Err", "PoolConstraintsInitialize">>}
              /\ exe[k].calls = 0
              /\ exe[k].disconnects = 0
        /\ exe[k].calls > 0 => exe[k].pool # "none"

\* One call has returned the tunnel error while another has its pool
\* built and its operation running.
C15_Witness ==
    /\ exe[1].pc = "returned" /\ exe[1].pool = "none"
    /\ exe[1].ret = <<"Err", "SshJumper(open_tunnel)">>
    /\ exe[2].pc = "call" /\ exe[2].calls = 1

\* C16: when the operation returned Ok, execute returns the
\* MySqlPoolDisconnect error if the disconnect failed and exactly the
\* operation's output if the disconnect succeeded.
C16_DisconnectErrorSurfaced ==
    \A k \in Executes :
        (exe[k].pc = "returned" /\ exe[k].pool # "none" /\ exe[k].op[1] = "Ok") =>
            /\ exe[k].pool = "disconnect_failed" =>
                  exe[k].ret = <<"Err", "MySqlPoolDisconnect">>
            /\ exe[k].pool = "disconnected" => exe[k].ret = exe[k].op

\* One call returned after a successful operation whose disconnect
\* failed, another returned the operation's output.
C16_Witness ==
    /\ exe[1].pc = "returned" /\ exe[1].op[1] = "Ok"
    /\ exe[1].pool = "disconnect_failed"
    /\ exe[2].pc = "returned" /\ exe[2].op = <<"Ok", 2>>
    /\ exe[2].pool = "disconnected" /\ exe[2].ret = <<"Ok", 2>>
RECURSIVE Concat(_)
Concat(ss) == IF ss = <<>> THEN <<>> ELSE Head(ss) \o Concat(Tail(ss))

\* C17: with tunnels_per_ssh_connection = T >= 1, query_multi works on
\* chunks whose concatenation is the input list, each of 1 to T targets and
\* each but the last of exactly T; prepare_tunnels asks a session for the
\* endpoints of its chunk's targets only, so for at most T.
C17_ChunksPartitionInput ==
    (QueryMulti /\ cfg.tunnels_per_ssh_connection >= 1 /\ pc # "start") =>
        /\ Len(chunk) = Len(Chunks)
        /\ Concat(Chunks) = query_targets
        /\ \A c \in DOMAIN chunk :
             /\ Len(Chunks[c]) \in 1 .. cfg.tunnels_per_ssh_connection
             /\ c < Len(chunk) => Len(Chunks[c]) = cfg.tunnels_per_ssh_connection
             /\ Len(chunk[c].requests) <= cfg.tunnels_per_ssh_connection
             /\ \A q \in DOMAIN chunk[c].requests :
                  chunk[c].requests[q].target = Chunks[c][q]

\* Three targets with a limit of two: a chunk of two and a chunk of one,
\* each with all its endpoints requested.
C17_Witness ==
    /\ QueryMulti /\ cfg.tunnels_per_ssh_connection = 2 /\ NumTargets = 3
    /\ Len(chunk) = 2
    /\ Len(chunk[1].requests) = 2
    /\ Len(chunk[2].requests) = 1

InFlightCount(c) ==
    Cardinality({j \in DOMAIN chunk[c].tasks : InFlight(chunk[c].tasks[j])})

\* C18: in query_multi, the per-target executions in flight within one
\* open session are at most as many as the chunk has targets, which are at
\* most tunnels_per_ssh_connection.
C18_InFlightBounded ==
    QueryMulti =>
        \A c \in DOMAIN chunk :
            chunk[c].session = "open" =>
                /\ InFlightCount(c) <= Len(Chunks[c])
                /\ Len(Chunks[c]) <= cfg.tunnels_per_ssh_connection

\* Both executions of a chunk of two are in flight in one session.
C18_Witness ==
    /\ QueryMulti
    /\ \E c \in DOMAIN chunk :
         /\ chunk[c].session = "open"
         /\ InFlightCount(c) = 2
         /\ cfg.tunnels_per_ssh_connection = 2

\* C19: in query_multi, a chunk whose prepare_tunnels failed starts no
\* per-target execution; every other chunk is still processed: while it
\* waits and nothing else is in progress its session open can be
\* attempted, and when the call has returned its session open was
\* attempted, its targets each have an entry, and if its preparation
\* succeeded each target had its own execution.
C19_FailedChunkIsolated ==
    QueryMulti =>
        \A c \in DOMAIN chunk :
            PrepareFailed(c) =>
                /\ chunk[c].tasks = <<>>
                /\ (/\ pc = "polling"
                    /\ \E d \in DOMAIN chunk : chunk[d].st = "new"
                    /\ \A d \in DOMAIN chunk : chunk[d].st \in {"new", "done"})
                      => ENABLED OpenSshSession
                /\ pc = "done" =>
                      \A d \in DOMAIN chunk \ {c} :
                          /\ chunk[d].opens = 1
                          /\ Range(Chunks[d]) \subseteq
                                 TargetsOf(results) \cup TargetsOf(errors)
                          /\ ~PrepareFailed(d) =>
                                 /\ Len(chunk[d].tasks) = Len(Chunks[d])
                                 /\ \A j \in DOMAIN chunk[d].tasks :
                                      chunk[d].tasks[j].db_tunnel = Chunks[d][j]

\* The first of three chunks failed in prepare_tunnels and the call has
\* returned with a result for the second and an operation error for the
\* third.
C19_Witness ==
    /\ QueryMulti /\ pc = "done"
    /\ Len(chunk) = 3
    /\ PrepareFailed(1)
    /\ chunk[2].out_results # <<>>
    /\ ~PrepareFailed(3) /\ chunk[3].out_errors # <<>>

\* C20: in query_multi with pairwise distinct names no per-target
\* execution ends with SshTunnelNotFound: every execution started was given
\* the endpoint of its own target, and no entry of errors has this kind.
C20_TunnelAlwaysFound ==
    (QueryMulti /\ DistinctNames) =>
        /\ \A c \in DOMAIN chunk : \A j \in DOMAIN chunk[c].tasks :
             /\ chunk[c].tasks[j].ret # "SshTunnelNotFound"
             /\ chunk[c].tasks[j].pc # "idle" =>
                  chunk[c].tasks[j].db_tunnel = TaskTargets(c)[j]
        /\ \A i \in DOMAIN errors : errors[i].v # "SshTunnelNotFound"

\* Two chunks were prepared and every lookup of their three targets
\* succeeded.
C20_Witness ==
    /\ QueryMulti /\ DistinctNames /\ pc = "done"
    /\ NumTargets = 3 /\ Len(chunk) = 2
    /\ \A c \in DOMAIN chunk :
         /\ Len(chunk[c].tasks) = Len(Chunks[c])
         /\ \A j \in DOMAIN chunk[c].tasks : chunk[c].tasks[j].db_tunnel # 0
\* The per-target futures of the batch, as (chunk, index) pairs.
AllTasks == UNION {{<<c, j>> : j \in DOMAIN chunk[c].tasks} : c \in DOMAIN chunk}

TaskOf(p) == chunk[p[1]].tasks[p[2]]

\* C21: when query_multi has returned, no session is open (a session that
\* was opened is closed) and every pool that was built has had its
\* disconnect attempted, once.
C21_TornDownAtReturn ==
    (QueryMulti /\ pc = "done") =>
        /\ \A c \in DOMAIN chunk :
             /\ chunk[c].session # "open"
             /\ (chunk[c].opens = 1 /\ chunk[c].prepare_err # SshJumperSession) =>
                   chunk[c].session = "closed"
        /\ \A p \in AllTasks :
             TaskOf(p).pool # 0 => TaskOf(p).disconnects = 1

\* query_multi has returned after two sessions were opened and three pools
\* built, one of them for a query that failed.
C21_Witness ==
    /\ QueryMulti /\ pc = "done"
    /\ Cardinality({c \in DOMAIN chunk : chunk[c].session = "closed"}) = 2
    /\ Cardinality({p \in AllTasks : TaskOf(p).pool # 0}) = 3
    /\ \E p \in AllTasks : TaskOf(p).failed = "prep"

\* C22: every per-target execution that reached its operation built a
\* pool, called its operation once with this pool and no other, and no two
\* per-target executions have the same pool.
C22_PoolNeverShared ==
    \A p \in AllTasks :
        /\ TaskOf(p).db_tunnel # 0 => TaskOf(p).pool # 0
        /\ TaskOf(p).calls > 0 => TaskOf(p).op_pool = TaskOf(p).pool
        /\ \A q \in AllTasks \ {p} :
             TaskOf(p).pool # 0 => TaskOf(q).pool # TaskOf(p).pool

\* The operations of two targets of one chunk are in flight, each with its
\* pool.
C22_Witness ==
    \E c \in DOMAIN chunk :
        /\ Len(chunk[c].tasks) >= 2
        /\ InFlight(chunk[c].tasks[1]) /\ InFlight(chunk[c].tasks[2])
        /\ chunk[c].tasks[1].pool # 0 /\ chunk[c].tasks[2].pool # 0
        /\ chunk[c].tasks[1].pc = "fetch" /\ chunk[c].tasks[2].pc = "get_conn"

\* The endpoint map prepare_tunnels builds for chunk c of targets with
\* distinct names.
BuiltMap(c) ==
    [nm \in NameIds |->
        IF nm \in ChunkNames(c)
        THEN CHOOSE t \in Range(Chunks[c]) : Name(t) = nm
        ELSE 0]

\* C23: for targets with distinct names, while the per-target futures of a
\* chunk run, the endpoint map is the one prepare_tunnels returned, and no
\* step of the batch changes it before the chunk's session is released.
C23_MapReadOnly ==
    /\ [](DistinctNames =>
            \A c \in DOMAIN chunk : chunk[c].st = "run" => chunk[c].map = BuiltMap(c))
    /\ [][\A c \in DOMAIN chunk :
            chunk[c].st = "run" => chunk'[c].map = chunk[c].map]_vars

\* One per-target future of a chunk of two is done, the other still runs,
\* and the map has its two entries.
C23_Witness ==
    \E c \in DOMAIN chunk :
        /\ chunk[c].st = "run" /\ Len(Chunks[c]) = 2 /\ Len(chunk[c].tasks) = 2
        /\ chunk[c].tasks[1].pc = "done" /\ chunk[c].tasks[1].db_tunnel # 0
        /\ InFlight(chunk[c].tasks[2])
        /\ Cardinality(Keys(chunk[c].map)) = 2
\* The value of a field of a struct as written.
Field(entries, key) == (CHOOSE e \in Range(entries) : e[1] = key)[2]

\* -(123 s + 456 ns)
MinusExample == duration_sub(zero, duration_add(seconds(123), nanoseconds(456)))

\* C24: a Value::Time(d) written by value_time_serde and read back is
\* Value::Time(d); what is written has the two fields secs and nanos, both
\* non-positive for a negative d and both non-negative otherwise, and
\* -(123 s + 456 ns) is written as secs = -123, nanos = -456.
C24_TimeRoundTrip ==
    /\ time.pc = "read" => time.read = <<"Ok", time.duration>>
    /\ time.pc \in {"written", "read"} =>
          /\ Len(time.written) = 2
          /\ time.written[1][1] = "secs" /\ time.written[2][1] = "nanos"
          /\ IF duration_lt(time.duration, zero)
             THEN Field(time.written, "secs") <= 0 /\ Field(time.written, "nanos") <= 0
             ELSE Field(time.written, "secs") >= 0 /\ Field(time.written, "nanos") >= 0
          /\ time.duration = MinusExample =>
                time.written = <<<<"secs", -123>>, <<"nanos", -456>>>>

\* -(123 s + 456 ns) has been written and read back.
C24_Witness ==
    /\ time.pc = "read"
    /\ time.duration = MinusExample
    /\ time.duration.secs = -124
    /\ Field(time.written, "nanos") = -456
\* C25: QueryRunner::default() has ssh_concurrent_limit = 20 and
\* tunnels_per_ssh_connection = 3, and every pool its executor has built
\* was built with the size bounds minimum 1 and maximum 10.
C25_Defaults ==
    /\ cfg.ssh_concurrent_limit = 20
    /\ cfg.tunnels_per_ssh_connection = 3
    /\ \A k \in Executes :
         exe[k].pool # "none" => exe[k].constraints = <<1, 10>>

\* Two pools have been built by the executor of the default QueryRunner.
C25_Witness ==
    /\ cfg.ssh_concurrent_limit = SSH_CONCURRENT_LIMIT_DEFAULT
    /\ \A k \in Executes : exe[k].pool = "built" /\ exe[k].constraints # <<>>
QueryRunOrder == <<"get_conn", "prep", "exec_iter", "fetch">>

\* The error kind that names a step of query_run.
KindOf(step) ==
    CASE step = "get_conn" -> "MySqlConnectionRetrieve"
      [] step = "prep" -> "MySqlPrepare"
      [] step = "exec_iter" -> "MySqlExecute"
      [] step = "fetch" -> "QueryResultSetFetch"

\* C26: the awaits query_run has made are an initial part of connection
\* acquire, prepare, execute, fetch; when one of them fails it is the last
\* one made and query_run returns the error kind that names it; query_run
\* returns Ok only after all four.
C26_FirstFailingStepNamed ==
    QueryMulti =>
        \A p \in AllTasks :
            LET t == TaskOf(p)
            IN  /\ Len(t.steps) <= 4
                /\ t.steps = SubSeq(QueryRunOrder, 1, Len(t.steps))
                /\ t.pc \in Range(QueryRunOrder) => t.steps[Len(t.steps)] = t.pc
                /\ t.failed \in Range(QueryRunOrder) =>
                      /\ t.steps[Len(t.steps)] = t.failed
                      /\ t.op = KindOf(t.failed)
                /\ t.op = "Ok" => t.steps = QueryRunOrder
                /\ (t.op \notin {"none", "Ok"}) => t.failed \in Range(QueryRunOrder)

\* One query of a chunk of two failed in prepare while the other is
\* fetching, and the query of another chunk failed in execute.
C26_Witness ==
    /\ QueryMulti
    /\ \E c, d \in DOMAIN chunk :
         /\ Len(chunk[c].tasks) = 2 /\ Len(chunk[d].tasks) = 1
         /\ chunk[c].tasks[1].op = "MySqlPrepare" /\ Len(chunk[c].tasks[1].steps) = 2
         /\ chunk[c].tasks[2].pc = "fetch"
         /\ chunk[d].tasks[1].op = "MySqlExecute" /\ Len(chunk[d].tasks[1].steps) = 3

\* The target the per-target future p is for.
TargetOf(p) == TaskTargets(p[1])[p[2]]

\* C27: during a call of query_multi or exec_multi the session open of a
\* chunk is attempted at most once, and exactly once when the chunk has
\* been taken up; the operation (or SQL run) of a target is invoked at most
\* once, whatever has failed.
C27_NoRetry ==
    /\ \A c \in DOMAIN chunk :
         /\ chunk[c].opens <= 1
         /\ chunk[c].st # "new" => chunk[c].opens = 1
    /\ \A p \in AllTasks : TaskOf(p).calls <= 1
    /\ \A t \in 1 .. NumTargets :
         Cardinality({p \in AllTasks : TargetOf(p) = t /\ TaskOf(p).calls > 0}) <= 1

\* The call has returned after a session open failed for one chunk and a
\* query failed for a target of another.
C27_Witness ==
    /\ pc = "done"
    /\ \E c \in DOMAIN chunk : chunk[c].prepare_err = SshJumperSession
    /\ \E p \in AllTasks : TaskOf(p).failed \in {"get_conn", "call"}

Increasing(es) == \A i, j \in DOMAIN es : i < j => es[i].target < es[j].target

\* C28: at every moment of query_multi, and so when it returns, the
\* entries of results are in the order of their targets in the input list,
\* and so are the entries of errors.
C28_InputOrderKept ==
    QueryMulti => (Increasing(results) /\ Increasing(errors))

\* Three chunks of one target run two at a time; the call has returned two
\* results and, between them in the input, one error.
C28_Witness ==
    /\ QueryMulti /\ pc = "done"
    /\ cfg.ssh_concurrent_limit = 2 /\ Len(chunk) = 3
    /\ Len(results) = 2 /\ Len(errors) = 1
    /\ errors[1].target = 2

\* C29: at most one prepare_tunnels is in progress, and a chunk is taken
\* up (its prepare_tunnels started) only when prepare_tunnels has returned
\* for every chunk before it.
C29_PrepareSerialized ==
    /\ Cardinality({c \in DOMAIN chunk : chunk[c].st = "prep"}) <= 1
    /\ \A c, d \in DOMAIN chunk :
         (d < c /\ chunk[c].st # "new") => chunk[d].st \in {"run", "done"}

\* prepare_tunnels of the second chunk is in progress while a per-target
\* execution of the first chunk is in flight.
C29_Witness ==
    /\ Len(chunk) >= 2
    /\ chunk[1].st = "run" /\ InFlightCount(1) >= 1
    /\ chunk[2].st = "prep"

\* C30: query_multi with limits >= 1 and no target can return, and has
\* then returned two empty sequences; no chunk is made, no session opened
\* and no per-target execution started.
C30_EmptyBatch ==
    (QueryMulti /\ WellFormed /\ NumTargets = 0) =>
        /\ pc \in {"start", "done"}
        /\ pc = "start" => ENABLED Call
        /\ pc = "done" => (results = <<>> /\ errors = <<>>)
        /\ chunk = <<>>
        /\ SessionsOpened = 0
        /\ AllTasks = {}

\* query_multi has returned for an empty list.
C30_Witness ==
    /\ QueryMulti /\ WellFormed /\ NumTargets = 0
    /\ pc = "done"

\* How many of the entries carry the name nm.
NameCount(es, nm) == Cardinality({i \in DOMAIN es : es[i].name = nm})

\* C31: when query_multi has returned, whether or not the target names are
\* unique, results and errors together have one entry per input target:
\* their lengths add up to the length of the input, and every name is
\* carried by as many entries as input targets have it.
C31_OneOutcomePerTarget ==
    (QueryMulti /\ pc = "done") =>
        /\ Len(results) + Len(errors) = NumTargets
        /\ \A nm \in NameIds :
             NameCount(results, nm) + NameCount(errors, nm)
                 = Cardinality({t \in 1 .. NumTargets : Name(t) = nm})

\* query_multi has returned for three targets, two of one chunk sharing a
\* name: one of the two is in results and the other in errors.
C31_Witness ==
    /\ QueryMulti /\ pc = "done" /\ NumTargets = 3
    /\ cfg.tunnels_per_ssh_connection = 2
    /\ Name(1) = Name(2) /\ Name(3) # Name(1)
    /\ NameCount(results, Name(1)) = 1
    /\ NameCount(errors, Name(1)) = 1

\* The names of the targets of chunk c are pairwise distinct.
ChunkDistinct(c) == Cardinality(ChunkNames(c)) = Len(Chunks[c])

\* The target of chunk c whose endpoint prepare_tunnels opened last among
\* those named nm.
LastNamed(c, nm) ==
    LET i == CHOOSE i \in DOMAIN Chunks[c] :
                 /\ Name(Chunks[c][i]) = nm
                 /\ \A k \in DOMAIN Chunks[c] : k > i => Name(Chunks[c][k]) # nm
    IN  Chunks[c][i]

\* C32: in query_multi, the endpoint map of a chunk that prepare_tunnels
\* built holds, for every name of the chunk, the endpoint opened last for
\* that name, and every per-target execution that has started uses the
\* endpoint the map holds for its target's name: the one opened towards
\* its own target when the names of the chunk are distinct, and, for
\* targets of one chunk sharing a name, the one opened last for that name.
C32_EndpointByName ==
    QueryMulti =>
        \A c \in DOMAIN chunk :
            /\ (chunk[c].st \in {"run", "done"} /\ ~PrepareFailed(c)) =>
                  /\ Keys(chunk[c].map) = ChunkNames(c)
                  /\ \A nm \in ChunkNames(c) : chunk[c].map[nm] = LastNamed(c, nm)
            /\ \A j \in DOMAIN chunk[c].tasks :
                  chunk[c].tasks[j].pc # "idle" =>
                      /\ chunk[c].tasks[j].ret # "SshTunnelNotFound"
                      /\ chunk[c].tasks[j].db_tunnel = LastNamed(c, Name(Chunks[c][j]))
                      /\ ChunkDistinct(c) => chunk[c].tasks[j].db_tunnel = Chunks[c][j]

\* Two targets of one chunk share a name and both have been executed
\* against the endpoint opened for the second, while the target of another
\* chunk has been executed against its own.
C32_Witness ==
    /\ QueryMulti
    /\ \E c, d \in DOMAIN chunk :
         /\ Len(Chunks[c]) = 2 /\ ~ChunkDistinct(c) /\ Len(chunk[c].tasks) = 2
         /\ chunk[c].tasks[1].pc = "done" /\ chunk[c].tasks[1].ret = "Ok"
         /\ chunk[c].tasks[2].pc = "done" /\ chunk[c].tasks[2].ret = "Ok"
         /\ chunk[c].tasks[1].db_tunnel = Chunks[c][2]
         /\ chunk[c].tasks[2].db_tunnel = Chunks[c][2]
         /\ c # d /\ Len(chunk[d].tasks) = 1
         /\ chunk[d].tasks[1].pc = "done"
         /\ chunk[d].tasks[1].db_tunnel = Chunks[d][1]
====
